---- MODULE Spec2Model ----
(***************************************************************************)
(* url-shorter: the sqlite mapping store (libsqlite.UrlDatabase), the      *)
(* redis cache and the aiohttp request handlers (shorter.Server).          *)
(*                                                                         *)
(* Every request is an asyncio task.  A task moves from one await to the   *)
(* next in one step; the arrival of a request and the handler's code up to *)
(* its first suspension are one step.  A store operation waits for the     *)
(* store lock, then runs its database section and releases the lock.       *)
(***************************************************************************)
EXTENDS Integers, Sequences, FiniteSets, TLC

\* ---------------------------------------------------------------- bounds
NumTasks  == 2      \* concurrent request tasks
MaxTokens == 2      \* distinct values random.random() can give a token

Tasks  == 1..NumTasks
\* owner ids that occur in requests and in the database file; 0 is no id
Owners == {1, 2}
Ids    == Owners \cup {0}
Tokens == {"k" \o ToString(i) : i \in 1..MaxTokens}

\* Short names and target urls that occur in the database file and in requests.
Codes == {"c1", "c2"}
Urls  == {"u1", "u2"}
\* The path segment of GET /{url}: a short name, or any other string.
LookupNames == {"c1", "auth"}
\* The 'url' field of a DELETE request.
DeleteNames == {"c1", "short_url"}

\* Rows a database file found at start-up may hold (SqliteBase._new loads it).
SeedRows == {[short_name |-> "c1", from_user |-> 1, target_url |-> "u1"]}

VARIABLES
    mapper,     \* table "mapper": set of [short_name, from_user, target_url]
    users,      \* table "users": set of [id, string]
    redis,      \* the redis keyspace: key -> value
    lock,       \* SqliteBase.lock: 0 when free, else the task holding it
    task,       \* per request task: the handler, its locals and its response
    pending,    \* save_query_result coroutines scheduled and not yet run
    dqs,        \* build option of sqlite: double-quoted string literals accepted
    issued,     \* history: owner -> the token add user last returned, "" once rotated or revoked
    created     \* history: <<short name, url>> returned by create link, not deleted since

vars == <<mapper, users, redis, lock, task, pending, dqs, issued, created>>

\* ------------------------------------------------------------ redis values
Missing    == [type |-> "none",   str |-> "",  members |-> {}]
StringV(s) == [type |-> "string", str |-> s,   members |-> {}]
SetV(S)    == [type |-> "set",    str |-> "",  members |-> S]

AuthKey == "us_auth"
ResultKey(url) == "us_" \o url
RedisKeys == {AuthKey} \cup {ResultKey(n) : n \in LookupNames}

WrongType == "WRONGTYPE"

\* GET key
redis_get(r, key) ==
    CASE r[key].type = "none"   -> [err |-> "", hit |-> FALSE, str |-> ""]
      [] r[key].type = "string" -> [err |-> "", hit |-> r[key].str /= "", str |-> r[key].str]
      [] OTHER                  -> [err |-> WrongType, hit |-> FALSE, str |-> ""]

\* SET key value
redis_set(r, key, s) == [r EXCEPT ![key] = StringV(s)]

\* SADD key member
redis_sadd(r, key, m) ==
    CASE r[key].type = "string" -> [err |-> WrongType, redis |-> r]
      [] OTHER -> [err |-> "", redis |-> [r EXCEPT ![key] = SetV(r[key].members \cup {m})]]

\* SADD key member [member ...]
redis_sadd_all(r, key, ms) ==
    CASE r[key].type = "string" -> [err |-> WrongType, redis |-> r]
      [] OTHER -> [err |-> "", redis |-> [r EXCEPT ![key] = SetV(r[key].members \cup ms)]]

\* DEL key
redis_delete(r, key) == [r EXCEPT ![key] = Missing]

\* SISMEMBER key member
redis_sismember(r, key, m) ==
    CASE r[key].type = "string" -> [err |-> WrongType, member |-> FALSE]
      [] OTHER -> [err |-> "", member |-> m \in r[key].members]

\* ------------------------------------------------------------- responses
Resp(status, body) == [status |-> status, body |-> body]
NoResp == Resp(0, "")
HTTPForbidden == Resp(403, "")
HTTPBadRequest == Resp(400, "")
HTTPNoContent == Resp(204, "")
HTTPMovedPermanently(location) == Resp(301, location)
json_response(body) == Resp(200, body)
\* an exception that leaves the handler: aiohttp answers 500
Raised(exc) == Resp(500, exc)

\* --------------------------------------------------- authorization header
\* A header is the sequence of its whitespace-separated parts; a part is the
\* sequence of its ':'-separated fields.  <<>> is the absent header.
NoHeader == <<>>
Bearer(id, token) == << <<"Bearer">>, <<id, token>> >>
IdStrings == {ToString(o) : o \in Owners}
Headers == {NoHeader, << <<"Bearer">> >>, << <<"Bearer">>, <<"k1">> >>}
           \cup {Bearer(i, k) : i \in IdStrings, k \in Tokens}

\* int(s)
ParseInt(s) ==
    IF \E n \in Ids : ToString(n) = s
    THEN [err |-> "", val |-> CHOOSE n \in Ids : ToString(n) = s]
    ELSE [err |-> "ValueError", val |-> 0]

\* verify_identify without the sismember test: any well-formed header passes
verify_identify_AnyToken(hdr, r) ==
    IF hdr = NoHeader
    THEN [ok |-> FALSE, resp |-> HTTPForbidden]
    ELSE IF Len(hdr) < 2 \/ Len(hdr[2]) < 2
    THEN [ok |-> FALSE, resp |-> Raised("IndexError")]
    ELSE [ok |-> TRUE, resp |-> NoResp]

\* Server.verify_identify: the bearer (the header's second part) or a response
verify_identify(hdr, r) ==
    IF hdr = NoHeader
    THEN [ok |-> FALSE, resp |-> HTTPForbidden]
    ELSE IF Len(hdr) < 2
    THEN [ok |-> FALSE, resp |-> Raised("IndexError")]
    ELSE IF Len(hdr[2]) < 2
    THEN [ok |-> FALSE, resp |-> Raised("IndexError")]
    ELSE LET m == redis_sismember(r, AuthKey, hdr[2][2]) IN
         IF m.err /= "" THEN [ok |-> FALSE, resp |-> Raised(m.err)]
         ELSE IF ~m.member THEN [ok |-> FALSE, resp |-> HTTPForbidden]
         ELSE [ok |-> TRUE, resp |-> NoResp]

\* ------------------------------------------------------------ the store
\* hashlib.sha256(data): data must be bytes
sha256(kind) == IF kind = "bytes" THEN [err |-> ""] ELSE [err |-> "TypeError"]

\* a connection closed without commit rolls its statements back
Close(before, after, committed) == IF committed THEN after ELSE before

\* UrlDatabase.get_all_authorized_key: every string of the table users
get_all_authorized_key(u) == {row.string : row \in u}

\* UrlDatabase.insert_authorized_key; s is the digest the random salt gives
insert_authorized_key(u, user_id, s) ==
    IF sha256("bytes").err /= "" THEN [users |-> u, err |-> "TypeError", ret |-> ""]
    ELSE IF \E row \in u : row.string = s
    THEN [users |-> u, err |-> "IntegrityError", ret |-> ""]
    ELSE [users |-> Close(u, u \cup {[id |-> user_id, string |-> s]}, TRUE),
          err |-> "", ret |-> s]

\* UrlDatabase.update_authorized_key
update_authorized_key(u, user_id, s) ==
    LET hit  == {row \in u : row.id = user_id}
        rest == u \ hit
        new  == rest \cup {[id |-> row.id, string |-> s] : row \in hit}
    IN  IF sha256("bytes").err /= "" THEN [users |-> u, err |-> "TypeError", ret |-> ""]
        ELSE IF Cardinality(hit) > 1 \/ (hit /= {} /\ \E row \in rest : row.string = s)
        THEN [users |-> u, err |-> "IntegrityError", ret |-> ""]
        ELSE [users |-> Close(u, new, TRUE), err |-> "", ret |-> s]

\* UrlDatabase.delete_user: the DELETE is never committed
delete_user(u, user_id) ==
    [users |-> Close(u, {row \in u : row.id /= user_id}, FALSE), err |-> "", ret |-> ""]

\* UrlDatabase.insert_url; r is the short name the random salt gives
insert_url(m, original_url, from_user, r) ==
    LET found == {row \in m : row.target_url = original_url} IN
    IF found /= {} THEN [mapper |-> m, err |-> "", ret |-> (CHOOSE row \in found : TRUE).short_name]
    ELSE IF sha256("str").err /= "" THEN [mapper |-> m, err |-> sha256("str").err, ret |-> ""]
    ELSE IF \E row \in m : row.short_name = r
    THEN [mapper |-> m, err |-> "IntegrityError", ret |-> ""]
    ELSE [mapper |-> Close(m, m \cup {[short_name |-> r, from_user |-> from_user,
                                       target_url |-> original_url]}, TRUE),
          err |-> "", ret |-> r]

\* Rows WHERE "short_url" = ? selects: "mapper" has no column short_url, so
\* sqlite reads "short_url" as the string 'short_url' when the build accepts
\* double-quoted string literals, and fails to prepare the statement otherwise.
WhereShortUrl(m, short_url) == IF short_url = "short_url" THEN m ELSE {}

\* UrlDatabase.delete_url; first is the row fetchone() yields when rows match
delete_url(m, short_url, from_user, first, dq) ==
    LET sel == WhereShortUrl(m, short_url) IN
    IF ~dq THEN [mapper |-> m, err |-> "OperationalError", ret |-> ""]
    ELSE IF sel = {} THEN [mapper |-> m, err |-> "", ret |-> "NotFound"]
    ELSE IF first.from_user /= from_user THEN [mapper |-> m, err |-> "", ret |-> "NotOwner"]
    ELSE [mapper |-> Close(m, m \ sel, TRUE), err |-> "", ret |-> ""]

\* UrlDatabase.query_url
query_url(m, short_name) ==
    LET found == {row \in m : row.short_name = short_name} IN
    IF found /= {} THEN (CHOOSE row \in found : TRUE).target_url ELSE ""

\* ------------------------------------------------------------- the tasks
\* the tables as a connection sees them
Tables(m, u) == [mapper |-> m, users |-> u]

\* A request task: the handler (kind), the request fields the handler has
\* read so far, the token it got from the store, and its response; txn is what
\* the commit of its open connection would write, keys are the tokens it read
\* with get_all_authorized_key.
Idle == [pc |-> "idle", kind |-> "", hdr |-> NoHeader, ip |-> "", id |-> 0,
         url |-> "", tok |-> "", resp |-> NoResp,
         txn |-> Tables({}, {}), keys |-> {}]

Local == "127.0.0.1"
RealIPs == {Local, "0.0.0.0"}

Done(rec, resp) == [rec EXCEPT !.pc = "done", !.resp = resp]

\* State after Server.new on a new database file holding SeedRows: no key,
\* so 'us_auth' is deleted and stays absent; no request in progress.
Init ==
    /\ mapper = SeedRows
    /\ users = {}
    /\ redis = [k \in RedisKeys |-> Missing]
    /\ lock = 0
    /\ task = [t \in Tasks |-> Idle]
    /\ pending = {}
    /\ dqs \in BOOLEAN
    /\ issued = [o \in Owners |-> ""]
    /\ created = {}

\* a lock that does not make the task wait: it is taken even while held
Acquire_NoWait(t) ==
    /\ task[t].pc = "lock"
    /\ lock' = t
    /\ task' = [task EXCEPT ![t].pc = "db", ![t].hdr = NoHeader, ![t].ip = ""]
    /\ UNCHANGED <<mapper, users, redis, pending, dqs, issued, created>>

\* async with self.lock: enter the database section of a store operation
\* (the store operation has the owner id and the url; the header is not used again)
Acquire(t) ==
    /\ task[t].pc = "lock"
    /\ lock = 0
    /\ lock' = t
    /\ task' = [task EXCEPT ![t].pc = "db", ![t].hdr = NoHeader, ![t].ip = ""]
    /\ UNCHANGED <<mapper, users, redis, pending, dqs, issued, created>>

\* the response is sent; the task ends
Return(t) ==
    /\ task[t].pc = "done"
    /\ task' = [task EXCEPT ![t] = Idle]
    /\ UNCHANGED <<mapper, users, redis, lock, pending, dqs, issued, created>>

\* a start without the X-Real-IP check: only int() of the 'id' field
LocalOnly_AnyIP(rec, ip, id) ==
    IF id = 0 THEN Done([rec EXCEPT !.ip = ip], HTTPBadRequest)
    ELSE [rec EXCEPT !.pc = "lock", !.ip = ip, !.id = id]

\* The start of handle_add_user and handle_delete_user: the X-Real-IP check
\* and int() of the 'id' field
LocalOnly(rec, ip, id) ==
    IF ip /= Local THEN Done([rec EXCEPT !.ip = ip], HTTPForbidden)
    ELSE IF id = 0 THEN Done([rec EXCEPT !.ip = ip], HTTPBadRequest)
    ELSE [rec EXCEPT !.pc = "lock", !.ip = ip, !.id = id]

\* Server.handle_add_user up to the call of insert_authorized_key
handle_add_user(t, ip, id) ==
    /\ task[t].pc = "idle"
    /\ task' = [task EXCEPT ![t] = LocalOnly([Idle EXCEPT !.kind = "add_user"], ip, id)]
    /\ UNCHANGED <<mapper, users, redis, lock, pending, dqs, issued, created>>

\* the database section of insert_authorized_key
add_user_db(t) ==
    /\ task[t].pc = "db" /\ task[t].kind = "add_user" /\ lock = t
    /\ \E s \in Tokens :
         LET r == insert_authorized_key(users, task[t].id, s) IN
         /\ users' = r.users
         /\ task' = [task EXCEPT ![t] =
                       IF r.err /= "" THEN Done(@, Raised(r.err))
                       ELSE [@ EXCEPT !.pc = "sadd", !.tok = r.ret]]
    /\ lock' = 0
    /\ UNCHANGED <<mapper, redis, pending, dqs, issued, created>>

\* await self.redis.sadd('us_auth', r) and the response
add_user_sadd(t) ==
    /\ task[t].pc = "sadd"
    /\ LET r == redis_sadd(redis, AuthKey, task[t].tok) IN
       /\ redis' = r.redis
       /\ task' = [task EXCEPT ![t] =
                     IF r.err /= "" THEN Done(@, Raised(r.err))
                     ELSE Done(@, json_response(task[t].tok))]
       /\ issued' = IF r.err = "" THEN [issued EXCEPT ![task[t].id] = task[t].tok] ELSE issued
    /\ UNCHANGED <<mapper, users, lock, pending, dqs, created>>

\* Server.handle_delete_user up to the call of delete_user
handle_delete_user(t, ip, id) ==
    /\ task[t].pc = "idle"
    /\ task' = [task EXCEPT ![t] = LocalOnly([Idle EXCEPT !.kind = "delete_user"], ip, id)]
    /\ UNCHANGED <<mapper, users, redis, lock, pending, dqs, issued, created>>

\* the database section of delete_user and the response
delete_user_db(t) ==
    /\ task[t].pc = "db" /\ task[t].kind = "delete_user" /\ lock = t
    /\ LET r == delete_user(users, task[t].id) IN
       /\ users' = r.users
       /\ task' = [task EXCEPT ![t] = Done(@, json_response("ok"))]
       /\ issued' = [issued EXCEPT ![task[t].id] = ""]
    /\ lock' = 0
    /\ UNCHANGED <<mapper, redis, pending, dqs, created>>

\* a lookup that does not look into the cache: it always asks the store
handle_redirect_NoCache(t, url) ==
    /\ task[t].pc = "idle"
    /\ task' = [task EXCEPT ![t] = [Idle EXCEPT !.kind = "redirect", !.url = url,
                                                !.pc = "lock"]]
    /\ UNCHANGED <<mapper, users, redis, lock, pending, dqs, issued, created>>

\* Server.handle_redirect up to the call of query_url
handle_redirect(t, url) ==
    /\ task[t].pc = "idle"
    /\ LET rec == [Idle EXCEPT !.kind = "redirect", !.url = url]
           g   == redis_get(redis, ResultKey(url))
       IN  task' = [task EXCEPT ![t] =
                      IF g.err /= "" THEN Done(rec, Raised(g.err))
                      ELSE IF g.hit
                      THEN IF g.str /= "Null" THEN Done(rec, HTTPMovedPermanently(g.str))
                           ELSE Done(rec, HTTPBadRequest)
                      ELSE [rec EXCEPT !.pc = "lock"]]
    /\ UNCHANGED <<mapper, users, redis, lock, pending, dqs, issued, created>>

\* the database section of query_url, the scheduling of save_query_result
\* and the response
redirect_db(t) ==
    /\ task[t].pc = "db" /\ task[t].kind = "redirect" /\ lock = t
    /\ LET url    == task[t].url
           result == query_url(mapper, url)
       IN  IF result /= ""
           THEN /\ pending' = pending \cup {[url |-> url, location |-> result]}
                /\ task' = [task EXCEPT ![t] = Done(@, HTTPMovedPermanently(url))]
           ELSE /\ pending' = pending \cup {[url |-> url, location |-> "Null"]}
                /\ task' = [task EXCEPT ![t] = Done(@, HTTPBadRequest)]
    /\ lock' = 0
    /\ UNCHANGED <<mapper, users, redis, dqs, issued, created>>

\* Server.save_query_result, run by the event loop some time after it was
\* scheduled: the SET is done, or it fails (the connection to redis is lost)
\* and the exception stays in the future nobody reads
save_query_result(p) ==
    /\ p \in pending
    /\ \E done \in BOOLEAN :
         redis' = IF done THEN redis_set(redis, ResultKey(p.url), p.location) ELSE redis
    /\ pending' = pending \ {p}
    /\ UNCHANGED <<mapper, users, lock, task, dqs, issued, created>>

\* The start of a handler that needs a bearer: verify_identify, then the
\* 'url' field when the handler reads one, then int() of the bearer's owner id
Authorized(rec, hdr, needsUrl, url) ==
    LET v == verify_identify(hdr, redis)
        r == [rec EXCEPT !.hdr = hdr]
    IN  IF ~v.ok THEN Done(r, v.resp)
        ELSE IF needsUrl /\ url = "" THEN Done(r, HTTPBadRequest)
        ELSE LET n == ParseInt(hdr[2][1]) IN
             IF n.err /= "" THEN Done([r EXCEPT !.url = url], Raised(n.err))
             ELSE [r EXCEPT !.pc = "lock", !.url = url, !.id = n.val]

\* Server.handle_create_link up to the call of insert_url
handle_create_link(t, hdr, url) ==
    /\ task[t].pc = "idle"
    /\ task' = [task EXCEPT ![t] =
                  Authorized([Idle EXCEPT !.kind = "create_link"], hdr, TRUE, url)]
    /\ UNCHANGED <<mapper, users, redis, lock, pending, dqs, issued, created>>

\* the database section of insert_url and the response
create_link_db(t) ==
    /\ task[t].pc = "db" /\ task[t].kind = "create_link" /\ lock = t
    /\ \E r \in Codes :
         LET res == insert_url(mapper, task[t].url, task[t].id, r) IN
         /\ mapper' = res.mapper
         /\ task' = [task EXCEPT ![t] =
                       IF res.err /= "" THEN Done(@, Raised(res.err))
                       ELSE Done(@, json_response(res.ret))]
         /\ created' = IF res.err = "" THEN created \cup {<<res.ret, task[t].url>>} ELSE created
    /\ lock' = 0
    /\ UNCHANGED <<users, redis, pending, dqs, issued>>

\* Server.handle_delete_link up to the call of delete_url
handle_delete_link(t, hdr, url) ==
    /\ task[t].pc = "idle"
    /\ task' = [task EXCEPT ![t] =
                  Authorized([Idle EXCEPT !.kind = "delete_link"], hdr, TRUE, url)]
    /\ UNCHANGED <<mapper, users, redis, lock, pending, dqs, issued, created>>

\* the rows fetchone() can yield for the SELECT of delete_url
FirstRows(m, short_url) ==
    IF WhereShortUrl(m, short_url) = {} THEN {[from_user |-> 0]}
    ELSE WhereShortUrl(m, short_url)

\* the database section of delete_url and the response
delete_link_db(t) ==
    /\ task[t].pc = "db" /\ task[t].kind = "delete_link" /\ lock = t
    /\ \E first \in FirstRows(mapper, task[t].url) :
         LET res == delete_url(mapper, task[t].url, task[t].id, first, dqs) IN
         /\ mapper' = res.mapper
         /\ task' = [task EXCEPT ![t] =
                       IF res.err /= "" THEN Done(@, Raised(res.err))
                       ELSE IF res.ret = "NotOwner" THEN Done(@, Resp(400, "NotOwner"))
                       ELSE IF res.ret = "NotFound" THEN Done(@, Resp(404, "NotFound"))
                       ELSE Done(@, HTTPNoContent)]
         /\ created' = {p \in created : \E row \in res.mapper : row.short_name = p[1]}
    /\ lock' = 0
    /\ UNCHANGED <<users, redis, pending, dqs, issued>>

\* Server.handle_revoke_key up to the call of update_authorized_key
handle_revoke_key(t, hdr) ==
    /\ task[t].pc = "idle"
    /\ task' = [task EXCEPT ![t] =
                  Authorized([Idle EXCEPT !.kind = "revoke_key"], hdr, FALSE, "")]
    /\ UNCHANGED <<mapper, users, redis, lock, pending, dqs, issued, created>>

\* the database section of update_authorized_key and the response
revoke_key_db(t) ==
    /\ task[t].pc = "db" /\ task[t].kind = "revoke_key" /\ lock = t
    /\ \E s \in Tokens :
         LET res == update_authorized_key(users, task[t].id, s) IN
         /\ users' = res.users
         /\ task' = [task EXCEPT ![t] =
                       IF res.err /= "" THEN Done(@, Raised(res.err))
                       ELSE Done([@ EXCEPT !.tok = res.ret], json_response(res.ret))]
         /\ issued' = IF res.err = "" THEN [issued EXCEPT ![task[t].id] = ""] ELSE issued
    /\ lock' = 0
    /\ UNCHANGED <<mapper, redis, pending, dqs, created>>

\* ------------------------------------------------------- specifications
\* one step of the handlers that serve links
LinkStep(t) ==
    \/ \E url \in LookupNames : handle_redirect(t, url)
    \/ redirect_db(t)
    \/ \E hdr \in Headers, url \in Urls \cup {""} : handle_create_link(t, hdr, url)
    \/ create_link_db(t)
    \/ \E hdr \in Headers, url \in DeleteNames \cup {""} : handle_delete_link(t, hdr, url)
    \/ delete_link_db(t)

\* one step of the handlers that manage keys
KeyStep(t) ==
    \/ \E ip \in RealIPs, id \in Ids : handle_add_user(t, ip, id)
    \/ add_user_db(t)
    \/ add_user_sadd(t)
    \/ \E ip \in RealIPs, id \in Ids : handle_delete_user(t, ip, id)
    \/ delete_user_db(t)
    \/ \E hdr \in Headers : handle_revoke_key(t, hdr)
    \/ revoke_key_db(t)

\* All handlers, for a client that sends one request at a time (task 1);
\* save_query_result runs whenever the event loop gets to it.
Next ==
    \/ Acquire(1)
    \/ Return(1)
    \/ LinkStep(1)
    \/ KeyStep(1)
    \/ \E p \in pending : save_query_result(p)

Spec == Init /\ [][Next]_vars

\* The same, with the event loop running: a task that can take a step takes
\* one, a scheduled save_query_result runs, and requests keep arriving.
FairSpec ==
    /\ Spec
    /\ WF_vars(Next)
    /\ WF_vars(\E p \in pending : save_query_result(p))

\* State after Server.new on a database file that holds SeedRows and one key
InitLinks ==
    /\ mapper = SeedRows
    /\ users = {[id |-> 1, string |-> "k1"]}
    /\ redis = [k \in RedisKeys |-> IF k = AuthKey THEN SetV({"k1"}) ELSE Missing]
    /\ lock = 0
    /\ task = [t \in Tasks |-> Idle]
    /\ pending = {}
    /\ dqs \in BOOLEAN
    /\ issued = [o \in Owners |-> ""]
    /\ created = {}

\* The link handlers, for NumTasks concurrent requests
NextLinks ==
    \/ \E t \in Tasks : Acquire(t) \/ Return(t) \/ LinkStep(t)
    \/ \E p \in pending : save_query_result(p)

SpecLinks == InitLinks /\ [][NextLinks]_vars

\* ------------------------------------------------------------ start-up
\* What redis can hold under 'us_auth' when the server starts: nothing, the
\* members a previous run left, or a string a lookup of 'auth' left
PriorAuth == {Missing, StringV("Null")} \cup {SetV(S) : S \in SUBSET Tokens \ {{}}}

\* The table users of the database file: "string" is its primary key
UsersFiles ==
    {u \in SUBSET [id : Owners, string : Tokens] :
        \A r1, r2 \in u : r1.string = r2.string => r1 = r2}

\* Server.new is called (task 1): the database file and redis are as the
\* previous run left them
InitStart ==
    /\ mapper = SeedRows
    /\ users \in UsersFiles
    /\ \E prior \in PriorAuth :
         redis = [k \in RedisKeys |-> IF k = AuthKey THEN prior ELSE Missing]
    /\ lock = 0
    /\ task = [t \in Tasks |-> IF t = 1 THEN [Idle EXCEPT !.pc = "new", !.kind = "new"]
                               ELSE Idle]
    /\ pending = {}
    /\ dqs \in BOOLEAN
    /\ issued = [o \in Owners |-> ""]
    /\ created = {}

\* a start-up that leaves 'us_auth' as it finds it
new_delete_Keep(t) ==
    /\ task[t].pc = "new" /\ task[t].kind = "new"
    /\ task' = [task EXCEPT ![t].pc = "lock"]
    /\ UNCHANGED <<mapper, users, redis, lock, pending, dqs, issued, created>>

\* await redis_connection.delete('us_auth'), up to the call of get_all_authorized_key
new_delete(t) ==
    /\ task[t].pc = "new" /\ task[t].kind = "new"
    /\ redis' = redis_delete(redis, AuthKey)
    /\ task' = [task EXCEPT ![t].pc = "lock"]
    /\ UNCHANGED <<mapper, users, lock, pending, dqs, issued, created>>

\* the database section of get_all_authorized_key, read to its end
new_db(t) ==
    /\ task[t].pc = "db" /\ task[t].kind = "new" /\ lock = t
    /\ task' = [task EXCEPT ![t].pc = "warm", ![t].keys = get_all_authorized_key(users)]
    /\ lock' = 0
    /\ UNCHANGED <<mapper, users, redis, pending, dqs, issued, created>>

\* if keys: await redis_connection.sadd('us_auth', *keys); the Server is built
new_sadd(t) ==
    /\ task[t].pc = "warm" /\ task[t].kind = "new"
    /\ LET r == IF task[t].keys /= {} THEN redis_sadd_all(redis, AuthKey, task[t].keys)
                ELSE [err |-> "", redis |-> redis]
       IN  /\ redis' = r.redis
           /\ task' = [task EXCEPT ![t] = IF r.err /= "" THEN Done(@, Raised(r.err))
                                          ELSE Done(@, NoResp)]
    /\ UNCHANGED <<mapper, users, lock, pending, dqs, issued, created>>

NextStart == new_delete(1) \/ Acquire(1) \/ new_db(1) \/ new_sadd(1)

SpecStart == InitStart /\ [][NextStart]_vars

\* ------------------------------------------------- more than one run
\* Rows the database file can have gained while the server was down
AddedRows == {{}, SeedRows}

\* The server is stopped and started again (Server.stop, then Server.new with
\* debug off): the database file is loaded as it is found, 'us_auth' is
\* deleted and filled from the table users, and every other key of redis is
\* left as the previous run wrote it.  Scheduled coroutines end with the
\* event loop.
Server_new(rows) ==
    /\ \A t \in Tasks : task[t].pc = "idle"
    /\ mapper' = mapper \cup rows
    /\ LET keys == get_all_authorized_key(users)
           r    == redis_delete(redis, AuthKey)
       IN  redis' = IF keys /= {} THEN redis_sadd_all(r, AuthKey, keys).redis ELSE r
    /\ pending' = {}
    /\ UNCHANGED <<users, lock, task, dqs, issued, created>>

\* the first run starts on a new database file: no row, no key
InitRuns ==
    /\ mapper = {}
    /\ users = {}
    /\ redis = [k \in RedisKeys |-> Missing]
    /\ lock = 0
    /\ task = [t \in Tasks |-> Idle]
    /\ pending = {}
    /\ dqs \in BOOLEAN
    /\ issued = [o \in Owners |-> ""]
    /\ created = {}

\* Lookups, creates and the key handlers of one client over several runs; no
\* row is ever deleted
NextRuns ==
    \/ Acquire(1)
    \/ Return(1)
    \/ \E url \in LookupNames : handle_redirect(1, url)
    \/ redirect_db(1)
    \/ \E hdr \in Headers, url \in Urls \cup {""} : handle_create_link(1, hdr, url)
    \/ create_link_db(1)
    \/ KeyStep(1)
    \/ \E p \in pending : save_query_result(p)
    \/ \E rows \in AddedRows : Server_new(rows)

SpecRuns == InitRuns /\ [][NextRuns]_vars

\* ------------------------------------------- the store, await by await
\* The methods of UrlDatabase called by concurrent tasks, one step per
\* suspension point: wait for the lock, run the statements on a new
\* connection, commit, close the connection and release the lock.  A task can
\* be cancelled at each of them.
StoreOps == {"get_all_authorized_key", "insert_authorized_key", "update_authorized_key",
             "delete_user", "insert_url", "delete_url", "query_url"}

\* the calls made: <<method, owner id, url or short name>>
StoreCalls ==
    {<<"get_all_authorized_key", 0, "">>, <<"insert_authorized_key", 1, "">>,
     <<"update_authorized_key", 1, "">>, <<"delete_user", 1, "">>,
     <<"insert_url", 1, "u2">>, <<"delete_url", 1, "short_url">>,
     <<"query_url", 0, "c1">>}

\* The statements of a method up to its commit, on a connection that sees the
\* tables db: the tables its commit would write, the value or exception it
\* ends with, and whether it gets to its commit (it does not when it raises,
\* when it returns early, or when it has none)
run_statements(kind, db, id, url, s, r, first, dq) ==
    CASE kind = "get_all_authorized_key" ->
           [db |-> db, err |-> "", ret |-> "", keys |-> get_all_authorized_key(db.users),
            commit |-> FALSE]
      [] kind = "insert_authorized_key" ->
           LET x == insert_authorized_key(db.users, id, s) IN
           [db |-> Tables(db.mapper, x.users), err |-> x.err, ret |-> x.ret, keys |-> {},
            commit |-> x.err = ""]
      [] kind = "update_authorized_key" ->
           LET x == update_authorized_key(db.users, id, s) IN
           [db |-> Tables(db.mapper, x.users), err |-> x.err, ret |-> x.ret, keys |-> {},
            commit |-> x.err = ""]
      [] kind = "delete_user" ->
           LET x == delete_user(db.users, id) IN
           [db |-> Tables(db.mapper, x.users), err |-> x.err, ret |-> x.ret, keys |-> {},
            commit |-> FALSE]
      [] kind = "insert_url" ->
           LET x == insert_url(db.mapper, url, id, r) IN
           [db |-> Tables(x.mapper, db.users), err |-> x.err, ret |-> x.ret, keys |-> {},
            commit |-> x.err = "" /\ \A row \in db.mapper : row.target_url /= url]
      [] kind = "delete_url" ->
           LET x == delete_url(db.mapper, url, id, first, dq) IN
           [db |-> Tables(x.mapper, db.users), err |-> x.err, ret |-> x.ret, keys |-> {},
            commit |-> x.err = "" /\ x.ret = ""]
      [] OTHER ->
           [db |-> db, err |-> "", ret |-> query_url(db.mapper, url), keys |-> {},
            commit |-> FALSE]

\* a task calls a method of the store and waits for self.lock
store_call(t, call) ==
    /\ task[t].pc = "idle"
    /\ task' = [task EXCEPT ![t] = [Idle EXCEPT !.pc = "lock", !.kind = call[1],
                                                !.id = call[2], !.url = call[3]]]
    /\ UNCHANGED <<mapper, users, redis, lock, pending, dqs, issued, created>>

\* aiosqlite.connect and the statements before the commit
store_execute(t) ==
    /\ task[t].pc = "db" /\ task[t].kind \in StoreOps /\ lock = t
    /\ \E s \in Tokens, r \in Codes, first \in FirstRows(mapper, task[t].url) :
         LET x == run_statements(task[t].kind, Tables(mapper, users), task[t].id,
                                 task[t].url, s, r, first, dqs)
         IN  task' = [task EXCEPT ![t] =
                        [@ EXCEPT !.pc = IF x.commit THEN "commit" ELSE "close",
                                  !.txn = IF x.commit THEN x.db ELSE Idle.txn,
                                  !.keys = x.keys,
                                  !.resp = IF x.err /= "" THEN Raised(x.err)
                                           ELSE json_response(x.ret)]]
    /\ UNCHANGED <<mapper, users, redis, lock, pending, dqs, issued, created>>

\* await db.commit()
store_commit(t) ==
    /\ task[t].pc = "commit" /\ lock = t
    /\ mapper' = task[t].txn.mapper
    /\ users' = task[t].txn.users
    /\ task' = [task EXCEPT ![t].pc = "close", ![t].txn = Idle.txn]
    /\ UNCHANGED <<redis, lock, pending, dqs, issued, created>>

\* the end of 'async with': the connection is closed and the lock released.
\* A method that returns ends its call, and the task is free for the next
\* one; a method that raises leaves its exception as the outcome of the task
store_close(t) ==
    /\ task[t].pc = "close" /\ lock = t
    /\ lock' = 0
    /\ task' = [task EXCEPT ![t] = IF @.resp.status = 500 THEN [@ EXCEPT !.pc = "done"]
                                   ELSE Idle]
    /\ UNCHANGED <<mapper, users, redis, pending, dqs, issued, created>>

\* cancelled at the commit, the task stops waiting but the lock stays held
store_cancel_KeepLock(t) ==
    /\ task[t].pc = "commit" /\ task[t].kind \in StoreOps
    /\ task' = [task EXCEPT ![t] = Done([@ EXCEPT !.txn = Idle.txn, !.keys = {}],
                                        Raised("CancelledError"))]
    /\ UNCHANGED <<mapper, users, redis, lock, pending, dqs, issued, created>>

\* The task is cancelled at one of its awaits: CancelledError leaves both
\* 'async with' blocks, so the connection is closed without commit and the
\* lock, when held, released.  A commit already handed to the connection's
\* thread is carried out or not.
store_cancel(t) ==
    /\ task[t].pc \in {"lock", "db", "commit", "close"} /\ task[t].kind \in StoreOps
    /\ \E ran \in BOOLEAN :
         /\ mapper' = IF task[t].pc = "commit" /\ ran THEN task[t].txn.mapper ELSE mapper
         /\ users' = IF task[t].pc = "commit" /\ ran THEN task[t].txn.users ELSE users
    /\ lock' = IF lock = t THEN 0 ELSE lock
    /\ task' = [task EXCEPT ![t] = Done([@ EXCEPT !.txn = Idle.txn, !.keys = {}],
                                        Raised("CancelledError"))]
    /\ UNCHANGED <<redis, pending, dqs, issued, created>>

NextStore ==
    \E t \in Tasks :
        \/ \E call \in StoreCalls : store_call(t, call)
        \/ Acquire(t)
        \/ store_execute(t)
        \/ store_commit(t)
        \/ store_close(t)
        \/ store_cancel(t)
        \/ Return(t)

SpecStore == Init /\ [][NextStore]_vars
\* ----------------------------------------------------------- properties
\* task t has its response from the store operation of handler kind
Called(t, kind) == task[t].pc = "done" /\ task[t].kind = kind /\ task[t].id /= 0

\* no delete_url has removed a row yet
NoDeleteYet == SeedRows \subseteq mapper

\* C1: two create link calls with the same target url, with no delete in
\* between, return the same short name, and the mapper table then holds
\* exactly one row for that url.
C1_SameCodeOneRow ==
    \A t1, t2 \in Tasks :
        (/\ t1 /= t2
         /\ Called(t1, "create_link") /\ Called(t2, "create_link")
         /\ task[t1].url = task[t2].url
         /\ NoDeleteYet)
        => /\ task[t1].resp.status = 200
           /\ task[t2].resp = task[t1].resp
           /\ Cardinality({row \in mapper : row.target_url = task[t1].url}) = 1
           /\ \E row \in mapper : row.target_url = task[t1].url
                                  /\ row.short_name = task[t1].resp.body

\* C2: once create link has returned short name c for url, and while that row
\* is not deleted, every lookup of c answers with url as the location, the
\* first one (a cache miss) as well as the later ones.
C2_LookupGivesTarget ==
    \A t \in Tasks : \A p \in created :
        (task[t].pc = "done" /\ task[t].kind = "redirect" /\ task[t].url = p[1])
        => task[t].resp = HTTPMovedPermanently(p[2])

\* C3: delete_url answers NotFound when no row has the short name and NotOwner
\* when the row belongs to another owner, leaving the table as it was; for the
\* creator it succeeds and removes exactly that row.
C3_DeleteResult ==
    [][\A t \in Tasks :
         (task[t].pc = "db" /\ task[t].kind = "delete_link" /\ task'[t].pc = "done")
         => LET rows == {row \in mapper : row.short_name = task[t].url} IN
            IF rows = {}
            THEN task'[t].resp = Resp(404, "NotFound") /\ mapper' = mapper
            ELSE IF \E row \in rows : row.from_user /= task[t].id
            THEN task'[t].resp = Resp(400, "NotOwner") /\ mapper' = mapper
            ELSE task'[t].resp = HTTPNoContent /\ mapper' = mapper \ rows]_vars

\* the handlers that call verify_identify
BearerKinds == {"create_link", "delete_link", "revoke_key"}

\* the request task t starts in this step
Starts(t) == task[t].pc = "idle" /\ task'[t].pc /= "idle"

\* verify_identify did not return the bearer: the handler answered at once
Refused(rec) ==
    /\ rec.pc = "done"
    /\ rec.resp \in {HTTPForbidden, Raised("IndexError"), Raised(WrongType)}

\* the header of owner o presenting token k
HeaderOf(o, k) == Bearer(ToString(o), k)

\* C4: a token returned by add user validates, and a mutating request that
\* carries it is accepted, as long as the owner's key was not rotated or
\* revoked since.
C4_IssuedKeyAccepted ==
    [][\A t \in Tasks :
         (/\ Starts(t)
          /\ task'[t].kind \in BearerKinds
          /\ \E o \in Owners : issued[o] /= "" /\ task'[t].hdr = HeaderOf(o, issued[o]))
         => ~Refused(task'[t])]_vars

\* C5: once delete user has completed for an owner, no token issued to that
\* owner validates any more.
C5_RevokedKeyRefused ==
    [][\A t \in Tasks :
         (task[t].pc = "db" /\ task[t].kind = "delete_user" /\ task'[t].pc = "done")
         => \A row \in users :
              row.id = task[t].id
              => ~verify_identify(HeaderOf(row.id, row.string), redis').ok]_vars

\* C6: once rotate key has returned the new token t2 in place of t1, t1 no
\* longer validates and t2 validates.
C6_RotateSwitchesToken ==
    [][\A t \in Tasks :
         (/\ task[t].pc = "db" /\ task[t].kind = "revoke_key"
          /\ task'[t].pc = "done" /\ task'[t].resp.status = 200)
         => /\ verify_identify(HeaderOf(task[t].id, task'[t].tok), redis').ok
            /\ \A row \in users :
                 (row.id = task[t].id /\ row.string /= task'[t].tok)
                 => ~verify_identify(HeaderOf(row.id, row.string), redis').ok]_vars

\* C7: at most one token per owner is valid: the users table holds at most one
\* row per owner id and the membership set at most one token of any one owner.
C7_OneKeyPerOwner ==
    \A o \in Owners :
        /\ Cardinality({row \in users : row.id = o}) <= 1
        /\ Cardinality({row \in users : row.id = o
                          /\ row.string \in redis[AuthKey].members}) <= 1

\* C8: concurrent create link calls with distinct target urls each return a
\* short name, the short names differ, and no two rows of the mapper table
\* share a short name.
C8_DistinctUrlsDistinctCodes ==
    /\ \A t1, t2 \in Tasks :
         (/\ t1 /= t2
          /\ Called(t1, "create_link") /\ Called(t2, "create_link")
          /\ task[t1].url /= task[t2].url)
         => /\ task[t1].resp.status = 200 /\ task[t2].resp.status = 200
            /\ task[t1].resp.body /= task[t2].resp.body
    /\ \A r1, r2 \in mapper : r1.short_name = r2.short_name => r1 = r2

\* the header carries no token that is a member of the set 'us_auth'
NotAMember(hdr, r) ==
    ~(Len(hdr) >= 2 /\ Len(hdr[2]) >= 2 /\ hdr[2][2] \in r[AuthKey].members)

\* C9: a create link, delete link or rotate key request whose header is
\* missing or carries no member of the membership set is refused before any
\* store operation: tables, cache and lock are as before.
C9_RefusedNoEffect ==
    [][\A t \in Tasks :
         (Starts(t) /\ task'[t].kind \in BearerKinds /\ NotAMember(task'[t].hdr, redis))
         => /\ task'[t].pc = "done"
            /\ task'[t].resp.status \in {403, 500}
            /\ UNCHANGED <<mapper, users, redis, lock, pending>>]_vars

\* a refused create link request is answered while the set has a member
C9_Witness ==
    \E t \in Tasks :
        /\ task[t].pc = "done" /\ task[t].kind = "create_link"
        /\ task[t].hdr = HeaderOf(1, "k2") /\ task[t].resp = HTTPForbidden
        /\ redis[AuthKey].members = {"k1"}

\* C10: verify_identify answers Unauthorized for a header that is absent,
\* that has no second part or no ':' in it, or whose token is not in the
\* membership set; it raises no other error.
C10_MalformedIsUnauthorized ==
    \A t \in Tasks :
        (/\ task[t].pc = "done" /\ task[t].kind \in BearerKinds
         /\ NotAMember(task[t].hdr, redis) /\ task[t].url = "" /\ task[t].id = 0
         /\ redis[AuthKey].type /= "string")
        => task[t].resp = HTTPForbidden

\* no row of the mapper table has the short name c
NoRow(c) == \A row \in mapper : row.short_name /= c

\* the cache entry of c holds a target, not the sentinel
PositiveEntry(c) ==
    /\ redis[ResultKey(c)].type = "string"
    /\ redis[ResultKey(c)].str \notin {"", "Null"}

\* C11: once the row of a short name c is deleted, a positive cache entry left
\* for c does not stay for ever: at some later point the cache no longer
\* resolves c.
C11_StaleEntryExpires ==
    \A c \in LookupNames : NoRow(c) ~> ~PositiveEntry(c)

\* task t is inside the database section of a store operation
InSection(t) == task[t].pc \in {"db", "commit", "close"}

\* C12: at most one store operation is inside its database section at any
\* time, whatever the interleaving of the tasks; the lock is held exactly by
\* the task inside, so it is free whenever no operation is inside.
C12_OneInSection ==
    /\ Cardinality({t \in Tasks : InSection(t)}) <= 1
    /\ \A t \in Tasks : InSection(t) <=> lock = t

\* update_authorized_key is at its commit while an insert_url waits for the lock
C12_Witness ==
    \E t1, t2 \in Tasks :
        /\ task[t1].pc = "commit" /\ task[t1].kind = "update_authorized_key"
        /\ task[t2].pc = "lock" /\ task[t2].kind = "insert_url"
        /\ lock = t1

\* C19: a store operation that is cancelled or fails at one of its awaits
\* leaves the tables as they were before it or as its commit writes them, and
\* does not keep the lock; the tables change at a commit only, all at once.
C19_CancelOrFailAtomic ==
    [][/\ \A t \in Tasks :
            (/\ task[t].kind \in StoreOps
             /\ task[t].pc \in {"lock", "db", "commit", "close"}
             /\ task'[t].pc = "done" /\ task'[t].resp.status = 500)
            => /\ lock' /= t
               /\ lock = t => lock' = 0
               /\ \/ Tables(mapper', users') = Tables(mapper, users)
                  \/ task[t].pc = "commit" /\ Tables(mapper', users') = task[t].txn
       /\ Tables(mapper', users') /= Tables(mapper, users)
            => /\ lock /= 0 /\ task[lock].pc = "commit"
               /\ Tables(mapper', users') = task[lock].txn]_vars

\* a delete_url cancelled at its commit, which was carried out: the lock is
\* free again and the next operation is inside
C19_Witness ==
    \E t1, t2 \in Tasks :
        /\ task[t1].pc = "done" /\ task[t1].kind = "delete_url"
        /\ task[t1].resp = Raised("CancelledError")
        /\ mapper = {}
        /\ task[t2].pc = "db" /\ lock = t2

\* C13: insert_url of a url no row maps yet always ends with a new row under a
\* short name no other row has, and returns that name: a generated name that
\* is taken already is replaced by another one, no error reaches the caller,
\* and the rows there were stay as they are.
C13_CollisionRetried ==
    [][\A t \in Tasks :
         (/\ task[t].pc = "db" /\ task[t].kind = "create_link" /\ task'[t].pc = "done"
          /\ \A row \in mapper : row.target_url /= task[t].url)
         => /\ task'[t].resp.status = 200
            /\ \E r \in Codes :
                 /\ \A row \in mapper : row.short_name /= r
                 /\ task'[t].resp.body = r
                 /\ mapper' = mapper \cup {[short_name |-> r, from_user |-> task[t].id,
                                            target_url |-> task[t].url]}]_vars

\* the answer of a lookup that gives what the store holds for short name c
StoreAnswer(c) ==
    IF query_url(mapper, c) /= "" THEN HTTPMovedPermanently(query_url(mapper, c))
    ELSE HTTPBadRequest

\* C14: cache population is fire and forget: a lookup that misses the cache
\* has its response, the store's answer, in the step that schedules the
\* population, and no later step of the population (done, failed or never
\* run) changes that response or any other task.
C14_PopulationFireAndForget ==
    [][/\ \A t \in Tasks :
            (task[t].pc = "db" /\ task[t].kind = "redirect" /\ task'[t].pc /= "db")
            => /\ task'[t].pc = "done"
               /\ task'[t].resp = StoreAnswer(task[t].url)
       /\ (pending' /= pending /\ pending' \subseteq pending) => task' = task]_vars

\* C15: when Server.new has completed, the set 'us_auth' holds exactly the
\* strings of the table users, whatever 'us_auth' held before.
C15_WarmUpExact ==
    \A t \in Tasks :
        (task[t].kind = "new" /\ task[t].pc = "done")
        => /\ task[t].resp = NoResp
           /\ redis[AuthKey].type /= "string"
           /\ redis[AuthKey].members = {row.string : row \in users}

\* start-up has completed on a file with the one key k1
C15_Witness ==
    /\ task[1].kind = "new" /\ task[1].pc = "done"
    /\ users = {[id |-> 2, string |-> "k1"]}
    /\ redis[AuthKey] = SetV({"k1"})

\* C16: the cache key of a lookup is never the key of the membership set: no
\* lookup reads 'us_auth', no cache population changes it, and no step that
\* changes 'us_auth' changes a resolution entry.
C16_KeysApart ==
    [][/\ \A t \in Tasks :
            (Starts(t) /\ task'[t].kind = "redirect") => ResultKey(task'[t].url) /= AuthKey
       /\ (pending' /= pending /\ pending' \subseteq pending) => redis'[AuthKey] = redis[AuthKey]
       /\ redis'[AuthKey] /= redis[AuthKey]
            => \A k \in RedisKeys \ {AuthKey} : redis'[k] = redis[k]]_vars

\* the cache holds an entry for the short name c
CacheHit(c) == redis[ResultKey(c)].type = "string" /\ redis[ResultKey(c)].str /= ""

\* C17: a lookup that finds an entry in the cache answers at once, unresolved
\* for the sentinel 'Null' and the cached value as the target otherwise; it
\* does not wait for the store and schedules no population.  Only a lookup
\* that misses the cache goes to the store, and no step of a lookup changes
\* the mapper table.
C17_HitSkipsStore ==
    [][\A t \in Tasks :
         /\ (Starts(t) /\ task'[t].kind = "redirect" /\ CacheHit(task'[t].url))
              => /\ task'[t].pc = "done"
                 /\ task'[t].resp =
                        IF redis[ResultKey(task'[t].url)].str = "Null" THEN HTTPBadRequest
                        ELSE HTTPMovedPermanently(redis[ResultKey(task'[t].url)].str)
                 /\ UNCHANGED <<mapper, users, redis, lock, pending>>
         /\ (Starts(t) /\ task'[t].kind = "redirect" /\ task'[t].pc = "lock")
              => ~CacheHit(task'[t].url)
         /\ (task'[t] /= task[t] /\ "redirect" \in {task[t].kind, task'[t].kind})
              => mapper' = mapper]_vars

\* a lookup of c1 answered from the cache, with no population scheduled
C17_Witness ==
    \E t \in Tasks :
        /\ task[t].pc = "done" /\ task[t].kind = "redirect" /\ task[t].url = "c1"
        /\ task[t].resp = HTTPMovedPermanently("u1")
        /\ redis[ResultKey("c1")] = StringV("u1")
        /\ pending = {} /\ lock = 0

\* C18: once delete_user has completed for an owner, the table users holds no
\* row of that owner (so start-up would not load a token of it), and the
\* mapper table is as before.
C18_DeleteUserDurable ==
    [][\A t \in Tasks :
         (task[t].pc = "db" /\ task[t].kind = "delete_user" /\ task'[t].pc = "done")
         => /\ \A row \in users' : row.id /= task[t].id
            /\ get_all_authorized_key(users') \cap
                  {row.string : row \in {x \in users : x.id = task[t].id}} = {}
            /\ mapper' = mapper]_vars

\* C20: the owner id an accepted create link, delete link or rotate key
\* request passes on to the store is the owner the presented token belongs
\* to: when the table users records the token, it records it for that id.
C20_OwnerIsTokenOwner ==
    [][\A t \in Tasks :
         (/\ Starts(t) /\ task'[t].kind \in BearerKinds
          /\ task'[t].pc = "lock")
         => \A row \in users :
              row.string = task'[t].hdr[2][2] => row.id = task'[t].id]_vars

UserKinds == {"add_user", "delete_user"}

\* C22: an add user or delete user request whose X-Real-IP is not 127.0.0.1
\* (absent counts as 0.0.0.0), or whose id is 0 or absent, is refused at once,
\* Forbidden or BadRequest, and changes neither the table users nor the set
\* 'us_auth'; a request of these handlers that goes on to the store is local
\* and has an id other than 0.
C22_NonLocalRefused ==
    [][\A t \in Tasks :
         (Starts(t) /\ task'[t].kind \in UserKinds)
         => IF task'[t].ip /= Local \/ task'[t].id = 0
            THEN /\ task'[t].pc = "done"
                 /\ task'[t].resp = IF task'[t].ip /= Local THEN HTTPForbidden
                                    ELSE HTTPBadRequest
                 /\ UNCHANGED <<mapper, users, redis, lock, pending>>
            ELSE task'[t].pc = "lock"]_vars

\* an add user request from another address is refused while a key exists
C22_Witness ==
    \E t \in Tasks :
        /\ task[t].pc = "done" /\ task[t].kind = "add_user"
        /\ task[t].ip = "0.0.0.0" /\ task[t].resp = HTTPForbidden
        /\ users = {[id |-> 1, string |-> "k1"]}
        /\ redis[AuthKey] = SetV({"k1"})
====
